---- MODULE Spec2Model ----
(***************************************************************************)
(* Model of src/main.py: the WaterSampleRobot coverage sweep, the sample   *)
(* classification against substance_spectrum, and the program loop.        *)
(*                                                                         *)
(* Lengths are millimetres as in the source.  Amounts and upper limits are *)
(* kept in hundredths of the source's unit (0.10 -> 10, 2.5 -> 250) so     *)
(* that the comparisons of analyze_sample stay exact over the integers.    *)
(* Timer values are milliseconds.                                          *)
(***************************************************************************)
EXTENDS Integers, Sequences, FiniteSets, TLC

VARIABLES
    surface_height,   \* argument surface_height of main (global_surface_height)
    surface_width,    \* argument surface_width of main (global_surface_width)
    width,            \* robot.width
    col_number,       \* robot.col_number
    pos_x,            \* robot.pos_x
    pos_y,            \* robot.pos_y
    is_done,          \* robot.is_done
    is_running,       \* global is_running
    is_on,            \* global is_on
    ts,               \* what ts.pressed() returns now
    dist,             \* what db.distance() returned last (odometry since db.reset)
    db_cmd,           \* last command given to the drivetrain db
    timer_time,       \* timer.time()
    timer_paused,     \* TRUE between timer.pause() and timer.resume()
    light,            \* ev3.light: "off" or "red"
    turns,            \* the turn maneuvers executed so far, oldest first
    sample,           \* locals of analyze_sample (NoSample outside of it)
    alerts,           \* table indices for which this analyze_sample called emit_warning
    pc                \* position of the program

vars == <<surface_height, surface_width, width, col_number, pos_x, pos_y,
          is_done, is_running, is_on, ts, dist, db_cmd, timer_time,
          timer_paused, light, turns, sample, alerts, pc>>

config == <<surface_height, surface_width, width>>
robotv == <<col_number, pos_x, pos_y, is_done>>

----------------------------------------------------------------------------
(* Bounds of the model *)

MaxSurfaceHeight == 2
MaxSurfaceWidth == 7
MaxRobotWidth == 3
TickMs == 2500

----------------------------------------------------------------------------
(* Program constants *)

global_surface_height == 800
global_surface_width == 560
robot_width == 140
CycleMs == 5 * 1000

substance_spectrum ==
    << [name |-> "acrylamide", spectrum |-> <<5, 6, 2>>,    upper_limit |-> 10],
       [name |-> "antimony",   spectrum |-> <<40, 25, 34>>, upper_limit |-> 500],
       [name |-> "arsenic",    spectrum |-> <<40, 40, 40>>, upper_limit |-> 1000],
       [name |-> "benzene",    spectrum |-> <<40, 20, 30>>, upper_limit |-> 100],
       [name |-> "cadmium",    spectrum |-> <<20, 20, 40>>, upper_limit |-> 500],
       [name |-> "chromium",   spectrum |-> <<19, 21, 39>>, upper_limit |-> 1000],
       [name |-> "copper",     spectrum |-> <<20, 17, 44>>, upper_limit |-> 200],
       [name |-> "cyanide",    spectrum |-> <<10, 12, 21>>, upper_limit |-> 5000],
       [name |-> "fluoride",   spectrum |-> <<19, 18, 45>>, upper_limit |-> 150],
       [name |-> "lead",       spectrum |-> <<20, 18, 44>>, upper_limit |-> 1000],
       [name |-> "mercury",    spectrum |-> <<19, 18, 45>>, upper_limit |-> 100],
       [name |-> "nickel",     spectrum |-> <<23, 11, 35>>, upper_limit |-> 1000],
       [name |-> "nitrate",    spectrum |-> <<20, 18, 45>>, upper_limit |-> 5000],
       [name |-> "nitrite",    spectrum |-> <<20, 17, 45>>, upper_limit |-> 50],
       [name |-> "phosphorus", spectrum |-> <<6, 5, 11>>,   upper_limit |-> 10] >>

----------------------------------------------------------------------------
(* Inputs *)

\* The configurations a run can be started with: the one of the source and
\* small ones, among them widths that do not divide and dimensions <= 0.
Configs ==
    {<<global_surface_height, global_surface_width, robot_width>>}
    \cup ((-1 .. MaxSurfaceHeight) \X (-1 .. MaxSurfaceWidth) \X (1 .. MaxRobotWidth))

\* Values db.distance() can return while a column of height h is driven:
\* short of the boundary, exactly on it, and past it (a polled reading).
DistanceReadings(h) == {d \in {0, 1, h \div 2, h, h + 1} : d >= 0}

\* Values right_cs.rgb() can return: every spectrum of the table and one
\* that is in no entry.
SampleSpectra == {substance_spectrum[i].spectrum : i \in DOMAIN substance_spectrum}
                 \cup {<<1, 1, 1>>}

\* Values left_cs.reflection() can return (hundredths).
SampleAmounts == {0, 100, 150, 200, 250}

NoSample == [spectrum |-> <<>>, amount |-> -1]

----------------------------------------------------------------------------
(* Pure helpers *)

\* int(a / b) of Python for b > 0: true division, then truncation toward 0.
IntDiv(a, b) == IF a >= 0 THEN a \div b ELSE -((-a) \div b)

\* Variants of TurnAngle: the parity test inverted; the else branch a copy
\* of the then branch.
TurnAngle_Inverted(col) == IF col % 2 = 1 THEN 90 ELSE -90

TurnAngle_SameWay(col) == IF col % 2 = 0 THEN 90 ELSE 90

\* begin_new_column: the angle given to both db.turn calls of the maneuver.
TurnAngle(col) == IF col % 2 = 0 THEN 90 ELSE -90

\* Variant of NextColumn: the increment forgotten.
NextColumn_Same(col) == col

\* Variant of NextColumn: the increment doubled.
NextColumn_Skip(col) == col + 2

\* begin_new_column: self.col_number += 1
NextColumn(col) == col + 1

\* Variant of LastColumn: the column count compared one too high.
LastColumn_OneMore(x, col, sw, w) == (x >= sw) \/ (col = IntDiv(sw, w) + 1)

\* Variant of LastColumn: both tests required instead of either.
LastColumn_Both(x, col, sw, w) == (x >= sw) /\ (col = IntDiv(sw, w))

\* check_column_status: the test that ends the sweep, on the increased pos_x.
LastColumn(x, col, sw, w) == (x >= sw) \/ (col = IntDiv(sw, w))

\* check_column_status: the test that the robot is at the top or bottom.
AtBoundary(y, sh) == (y = sh) \/ (y = 0)

\* Variant of EntryMatches: the limit itself does not count as exceeded.
EntryMatches_Strict(value, spectrum, amount) ==
    (spectrum = value.spectrum) /\ (amount > value.upper_limit)

\* analyze_sample: the test of one table entry against the sample.
EntryMatches(value, spectrum, amount) ==
    (spectrum = value.spectrum) /\ (amount >= value.upper_limit)

\* Variant of TsStops: the test of is_on inverted.
TsStops_WhileOn(pressed, on) == pressed /\ (on = TRUE)

\* is_ts_pressed: the test under which a press sets is_done.
TsStops(pressed, on) == pressed /\ (on = FALSE)

\* Variant of IsTsPressedResult: the press is returned, not is_done.
IsTsPressedResult_Press(done, pressed) == pressed

\* is_ts_pressed: return self.is_done
IsTsPressedResult(done, pressed) == done

\* analyze_sample: the loop over substance_spectrum.values() from entry i on;
\* the result lists the entries for which emit_warning is called, in order.
RECURSIVE AnalyzeFrom(_, _, _)
AnalyzeFrom(i, spectrum, amount) ==
    IF i > Len(substance_spectrum) THEN <<>>
    ELSE (IF EntryMatches(substance_spectrum[i], spectrum, amount)
          THEN <<i>> ELSE <<>>) \o AnalyzeFrom(i + 1, spectrum, amount)

----------------------------------------------------------------------------
(* The program *)

MainPcs == {"main_start", "main_loop", "main_poll", "main_read",
            "main_compare", "check_column_status", "main_resume",
            "main_expiry", "main_clear", "analyze_sample", "main_return"}

Init ==
    /\ \E c \in Configs :
          /\ surface_height = c[1]
          /\ surface_width = c[2]
          /\ width = c[3]
    /\ col_number = 1
    /\ pos_x = 0
    /\ pos_y = 0
    /\ is_done = FALSE
    /\ is_running = TRUE
    /\ is_on = FALSE
    /\ ts = FALSE
    /\ dist = 0
    /\ db_cmd = "none"
    /\ timer_time = 0
    /\ timer_paused = FALSE
    /\ light = "off"
    /\ turns = <<>>
    /\ sample = NoSample
    /\ alerts = <<>>
    /\ pc = "program_loop"

\* The touch sensor is pressed or released.
Touch ==
    /\ pc # "halt"
    /\ ts' = ~ts
    /\ UNCHANGED <<config, robotv, is_running, is_on, dist, db_cmd, timer_time,
                   timer_paused, light, turns, sample, alerts, pc>>

\* Time passes on the stopwatch while it is not paused.
TimePasses ==
    /\ pc \in MainPcs
    /\ ~timer_paused
    /\ timer_time < CycleMs
    /\ timer_time' = timer_time + TickMs
    /\ UNCHANGED <<config, robotv, is_running, is_on, ts, dist, db_cmd,
                   timer_paused, light, turns, sample, alerts, pc>>

\* while (is_running): if (ts.pressed()): is_on = True
ProgramLoop ==
    /\ pc = "program_loop"
    /\ IF is_running
       THEN /\ is_on' = (IF ts THEN TRUE ELSE is_on)
            /\ pc' = "inner_loop"
       ELSE /\ is_on' = is_on
            /\ pc' = "halt"
    /\ UNCHANGED <<config, robotv, is_running, ts, dist, db_cmd, timer_time,
                   timer_paused, light, turns, sample, alerts>>

\* Variant of InnerLoop: the test of robot.is_done inverted.
InnerLoop_Inverted ==
    /\ pc = "inner_loop"
    /\ IF is_on
       THEN IF ~is_done
            THEN /\ is_on' = FALSE
                 /\ is_running' = FALSE
                 /\ pc' = "inner_loop"
            ELSE /\ UNCHANGED <<is_on, is_running>>
                 /\ pc' = "main_start"
       ELSE /\ UNCHANGED <<is_on, is_running>>
            /\ pc' = "program_loop"
    /\ UNCHANGED <<config, robotv, ts, dist, db_cmd, timer_time,
                   timer_paused, light, turns, sample, alerts>>

\* while (is_on): if (robot.is_done): finish_program() else: robot.main(...)
InnerLoop ==
    /\ pc = "inner_loop"
    /\ IF is_on
       THEN IF is_done
            THEN /\ is_on' = FALSE
                 /\ is_running' = FALSE
                 /\ pc' = "inner_loop"
            ELSE /\ UNCHANGED <<is_on, is_running>>
                 /\ pc' = "main_start"
       ELSE /\ UNCHANGED <<is_on, is_running>>
            /\ pc' = "program_loop"
    /\ UNCHANGED <<config, robotv, ts, dist, db_cmd, timer_time,
                   timer_paused, light, turns, sample, alerts>>

\* main: timer.reset(); db.drive(self.drive_speed, self.turn_rate)
MainStart ==
    /\ pc = "main_start"
    /\ timer_time' = 0
    /\ db_cmd' = "drive"
    /\ pc' = "main_loop"
    /\ UNCHANGED <<config, robotv, is_running, is_on, ts, dist,
                   timer_paused, light, turns, sample, alerts>>

\* main: while (timer.time() < 5*1000)
MainLoop ==
    /\ pc = "main_loop"
    /\ pc' = (IF timer_time < CycleMs THEN "main_poll" ELSE "main_expiry")
    /\ UNCHANGED <<config, robotv, is_running, is_on, ts, dist, db_cmd,
                   timer_time, timer_paused, light, turns, sample, alerts>>

\* main: if (self.is_ts_pressed()): db.stop(); return
\* is_ts_pressed: if (ts.pressed() and is_on == False): self.is_done = True
\*                return self.is_done
MainPoll ==
    /\ pc = "main_poll"
    /\ is_done' = (IF TsStops(ts, is_on) THEN TRUE ELSE is_done)
    /\ IF IsTsPressedResult(is_done', ts)
       THEN /\ db_cmd' = "stop"
            /\ pc' = "main_return"
       ELSE /\ db_cmd' = db_cmd
            /\ pc' = "main_read"
    /\ UNCHANGED <<config, col_number, pos_x, pos_y, is_running, is_on, ts,
                   dist, timer_time, timer_paused, light, turns, sample, alerts>>

\* main: self.pos_y = db.distance()
MainRead ==
    /\ pc = "main_read"
    /\ \E d \in DistanceReadings(surface_height) :
          /\ d >= dist
          /\ dist' = d
          /\ pos_y' = d
    /\ pc' = "main_compare"
    /\ UNCHANGED <<config, col_number, pos_x, is_done, is_running, is_on, ts,
                   db_cmd, timer_time, timer_paused, light, turns, sample, alerts>>

\* Variant of MainCompare: the timer is not paused before the call.
MainCompare_NoPause ==
    /\ pc = "main_compare"
    /\ pc' = (IF pos_y >= surface_height THEN "check_column_status"
                                         ELSE "main_resume")
    /\ UNCHANGED <<config, robotv, is_running, is_on, ts, dist, db_cmd,
                   timer_time, timer_paused, light, turns, sample, alerts>>

\* main: if (self.pos_y >= surface_height): timer.pause(); (call follows)
MainCompare ==
    /\ pc = "main_compare"
    /\ IF pos_y >= surface_height
       THEN /\ timer_paused' = TRUE
            /\ pc' = "check_column_status"
       ELSE /\ timer_paused' = timer_paused
            /\ pc' = "main_resume"
    /\ UNCHANGED <<config, robotv, is_running, is_on, ts, dist, db_cmd,
                   timer_time, light, turns, sample, alerts>>

\* check_column_status, with begin_new_column and finish_program
CheckColumnStatus ==
    /\ pc = "check_column_status"
    /\ IF AtBoundary(pos_y, surface_height)
       THEN /\ pos_x' = pos_x + width
            /\ IF LastColumn(pos_x', col_number, surface_width, width)
               THEN /\ is_done' = TRUE
                    /\ is_on' = FALSE
                    /\ is_running' = FALSE
                    /\ UNCHANGED <<col_number, pos_y, dist, db_cmd, turns>>
               ELSE /\ turns' = Append(turns, [col |-> col_number,
                                               angle |-> TurnAngle(col_number),
                                               straight |-> width])
                    /\ col_number' = NextColumn(col_number)
                    /\ db_cmd' = "reset"
                    /\ dist' = 0
                    /\ pos_y' = 0
                    /\ UNCHANGED <<is_done, is_on, is_running>>
       ELSE UNCHANGED <<robotv, is_on, is_running, dist, db_cmd, turns>>
    /\ pc' = "main_resume"
    /\ UNCHANGED <<config, ts, timer_time, timer_paused, light, sample, alerts>>

\* main: timer.resume()
MainResume ==
    /\ pc = "main_resume"
    /\ timer_paused' = FALSE
    /\ pc' = "main_loop"
    /\ UNCHANGED <<config, robotv, is_running, is_on, ts, dist, db_cmd,
                   timer_time, light, turns, sample, alerts>>

\* Variant of MainExpiry: the drivetrain is not stopped.
MainExpiry_NoStop ==
    /\ pc = "main_expiry"
    /\ pc' = "main_clear"
    /\ UNCHANGED <<config, robotv, is_running, is_on, ts, dist, db_cmd,
                   timer_time, timer_paused, light, turns, sample, alerts>>

\* main, after the loop: db.stop()
MainExpiry ==
    /\ pc = "main_expiry"
    /\ db_cmd' = "stop"
    /\ pc' = "main_clear"
    /\ UNCHANGED <<config, robotv, is_running, is_on, ts, dist, timer_time,
                   timer_paused, light, turns, sample, alerts>>

\* main, after the loop: ev3.light.off(); ev3.screen.clear()
MainClear ==
    /\ pc = "main_clear"
    /\ light' = "off"
    /\ pc' = "analyze_sample"
    /\ UNCHANGED <<config, robotv, is_running, is_on, ts, dist, db_cmd,
                   timer_time, timer_paused, turns, sample, alerts>>

\* analyze_sample, with emit_warning
AnalyzeSample ==
    /\ pc = "analyze_sample"
    /\ \E s \in SampleSpectra, a \in SampleAmounts :
          /\ sample' = [spectrum |-> s, amount |-> a]
          /\ alerts' = AnalyzeFrom(1, s, a)
    /\ light' = (IF alerts' # <<>> THEN "red" ELSE light)
    /\ pc' = "main_return"
    /\ UNCHANGED <<config, robotv, is_running, is_on, ts, dist, db_cmd,
                   timer_time, timer_paused, turns>>

\* main returns to the program loop; the locals of analyze_sample are gone
MainReturn ==
    /\ pc = "main_return"
    /\ sample' = NoSample
    /\ alerts' = <<>>
    /\ pc' = "inner_loop"
    /\ UNCHANGED <<config, robotv, is_running, is_on, ts, dist, db_cmd,
                   timer_time, timer_paused, light, turns>>

Next ==
    \/ Touch
    \/ TimePasses
    \/ ProgramLoop
    \/ InnerLoop
    \/ MainStart
    \/ MainLoop
    \/ MainPoll
    \/ MainRead
    \/ MainCompare
    \/ CheckColumnStatus
    \/ MainResume
    \/ MainExpiry
    \/ MainClear
    \/ AnalyzeSample
    \/ MainReturn

Spec == Init /\ [][Next]_vars

TypeOK ==
    /\ col_number \in Nat \ {0}
    /\ pos_x \in Nat
    /\ pos_y \in Nat
    /\ is_done \in BOOLEAN
    /\ is_running \in BOOLEAN
    /\ is_on \in BOOLEAN
    /\ ts \in BOOLEAN
    /\ db_cmd \in {"none", "drive", "stop", "reset"}
    /\ timer_paused \in BOOLEAN
    /\ light \in {"off", "red"}
    /\ pc \in MainPcs \cup {"program_loop", "inner_loop", "halt"}

----------------------------------------------------------------------------
(* Properties *)

CW == 90
CCW == -90

\* The run of the source: surface 800 x 560, robot width 140.
SourceConfig ==
    /\ surface_height = global_surface_height
    /\ surface_width = global_surface_width
    /\ width = robot_width

\* The angles of the turn maneuvers so far, one per boundary, oldest first.
TurnDirections == [i \in DOMAIN turns |-> turns[i].angle]

\* s is an initial part of t.
IsPrefix(s, t) == Len(s) <= Len(t) /\ \A i \in DOMAIN s : s[i] = t[i]

\* Every maneuver was issued at the boundary of the column of its position.
TurnsInColumnOrder == \A i \in DOMAIN turns : turns[i].col = i

\* ceil(a / b) for a >= 0, b > 0.
Ceil(a, b) == (a + b - 1) \div b

\* C1 as stated: in the run with surface 800 x 560 and robot width 140 the
\* maneuvers at the boundaries of columns 1, 2, 3 turn CW, CCW, CW in that
\* order, and the sweep is finished without a maneuver at column 4.
C1_TurnsCwCcwCw ==
    SourceConfig =>
        /\ TurnsInColumnOrder
        /\ IsPrefix(TurnDirections, <<CW, CCW, CW>>)
        /\ is_done => TurnDirections = <<CW, CCW, CW>>

\* C1 amended: in that run the maneuvers at the boundaries of columns 1, 2, 3
\* turn CCW, CW, CCW in that order (column 1 is odd, and odd columns turn by
\* -90), and the sweep is finished without a maneuver at column 4.
C1_TurnsCcwCwCcw ==
    SourceConfig =>
        /\ TurnsInColumnOrder
        /\ IsPrefix(TurnDirections, <<CCW, CW, CCW>>)
        /\ is_done => TurnDirections = <<CCW, CW, CCW>>

C1_Witness ==
    /\ SourceConfig
    /\ is_done
    /\ Len(turns) = 3
    /\ col_number = 4

\* C2: when surface_width = k * width with k >= 1, col_number never exceeds k
\* and the sweep is finished in column k exactly.
C2_ExactMultiple ==
    (width > 0 /\ surface_width >= width /\ surface_width % width = 0) =>
        LET k == surface_width \div width
        IN  /\ col_number <= k
            /\ is_done => col_number = k

C2_Witness ==
    /\ surface_width = 560
    /\ width = 140
    /\ is_done
    /\ col_number = 4

\* C3: any two consecutive turn maneuvers, at the boundaries of columns n and
\* n + 1, turn in opposite directions: one by 90 twice, the other by -90 twice.
C3_TurnAlternation ==
    \A i \in DOMAIN turns :
        /\ turns[i].angle \in {CW, CCW}
        /\ (i + 1 \in DOMAIN turns) =>
              /\ turns[i + 1].col = turns[i].col + 1
              /\ turns[i + 1].angle = -turns[i].angle

C3_Witness ==
    /\ Len(turns) >= 3
    /\ turns[1].angle # turns[2].angle

\* C4: for surface_width > 0 and width > 0 the number of column transitions so
\* far, col_number - 1, one per call of begin_new_column, is at most
\* ceil(surface_width / width).
C4_TerminationBound ==
    (surface_width > 0 /\ width > 0) =>
        /\ Len(turns) = col_number - 1
        /\ col_number - 1 <= Ceil(surface_width, width)

C4_Witness ==
    /\ surface_width > 0
    /\ surface_width % width # 0
    /\ col_number - 1 >= 2
    /\ is_done

\* Some entry of the table has the spectrum of the sample and an upper limit
\* that the amount reaches.
Contaminated(spectrum, amount) ==
    \E i \in DOMAIN substance_spectrum :
        /\ substance_spectrum[i].spectrum = spectrum
        /\ substance_spectrum[i].upper_limit <= amount

\* C5: analyze_sample calls emit_warning, and the red light is on after it,
\* iff some entry has the spectrum of the sample and upper_limit <= amount; a
\* spectrum in no entry never alerts; (20,17,44) alerts at 2.5, not at 1.0.
C5_AlertIffOverLimit ==
    (sample # NoSample) =>
        /\ (alerts # <<>>) <=> Contaminated(sample.spectrum, sample.amount)
        /\ (light = "red") <=> (alerts # <<>>)
        /\ (sample.spectrum = <<1, 1, 1>>) => alerts = <<>>
        /\ (sample.spectrum = <<20, 17, 44>> /\ sample.amount = 250) => alerts # <<>>
        /\ (sample.spectrum = <<20, 17, 44>> /\ sample.amount = 100) => alerts = <<>>

C5_Witness ==
    /\ pc = "main_return"
    /\ sample = [spectrum |-> <<20, 17, 44>>, amount |-> 250]
    /\ light = "red"

C5_WitnessBelow ==
    /\ pc = "main_return"
    /\ sample = [spectrum |-> <<20, 17, 44>>, amount |-> 100]
    /\ light = "off"

\* The first entry of the table, in table order, that the sample matches
\* (0 when there is none).
FirstMatch(spectrum, amount) ==
    LET hits == {i \in DOMAIN substance_spectrum :
                    /\ substance_spectrum[i].spectrum = spectrum
                    /\ substance_spectrum[i].upper_limit <= amount}
    IN  IF hits = {} THEN 0 ELSE CHOOSE i \in hits : \A j \in hits : i <= j

\* C6: one call of analyze_sample calls emit_warning at most once, for the
\* first entry in table order that matches, also when several entries share
\* the spectrum and all have upper_limit <= amount.
C6_FirstMatchWins ==
    (sample # NoSample) =>
        /\ Len(alerts) <= 1
        /\ (alerts # <<>>) => alerts[1] = FirstMatch(sample.spectrum, sample.amount)

\* C7: when the poll of an iteration of the driving loop finds ts.pressed()
\* true, that iteration commands db.stop() and main returns, without a call
\* of analyze_sample.
C7_StopWithinOneIteration ==
    [][(pc = "main_poll" /\ ts /\ pc' # pc) =>
           (db_cmd' = "stop" /\ pc' = "main_return")]_vars

\* The configurations that are to be rejected at startup.
ConfigurationError ==
    \/ width >= surface_width
    \/ surface_height <= 0
    \/ surface_width <= 0

\* C8: with robot width >= surface width, or a surface dimension <= 0, the
\* control loop never starts: main is never called, db.drive never given.
C8_ConfigurationRejected ==
    ConfigurationError => (pc \notin MainPcs /\ db_cmd = "none")

\* C9: for 0 < width < surface_width (on a surface of positive height), when
\* the sweep is finished the columns swept, each width wide, cover the surface
\* width: col_number * width >= surface_width.
C9_WholeWidthSwept ==
    (0 < width /\ width < surface_width /\ surface_height > 0 /\ is_done) =>
        col_number * width >= surface_width

\* C10: a tick that has read pos_y >= surface_height (the surface height
\* positive) while is_done is false handles the boundary: it sets is_done, or
\* it executes a turn maneuver, increments col_number by 1 and resets pos_y
\* to 0.
C10_BoundaryHandled ==
    [][(pc = "check_column_status" /\ pc' # pc /\ surface_height > 0
            /\ pos_y >= surface_height /\ ~is_done) =>
           \/ is_done'
           \/ /\ Len(turns') = Len(turns) + 1
              /\ col_number' = col_number + 1
              /\ pos_y' = 0]_vars

\* A step of the program itself, not of the touch sensor or the clock.
ProgramStep == pc' # pc

\* The finish decision as specified, on the increased x: new_x >= width of
\* the surface, or column index >= max_columns = floor(surface_width / width).
SpecifiedFinish(x, col, sw, w) == (x >= sw) \/ (col >= sw \div w)

\* C11: at every boundary check (width > 0, surface_width > 0)
\* check_column_status sets is_done iff pos_x + width >= surface_width or
\* col_number >= floor(surface_width / width), although the code compares
\* col_number with ==.
C11_FinishDecisionAsSpecified ==
    [][(pc = "check_column_status" /\ ProgramStep
            /\ AtBoundary(pos_y, surface_height)
            /\ width > 0 /\ surface_width > 0 /\ ~is_done) =>
           (is_done' <=>
               SpecifiedFinish(pos_x + width, col_number, surface_width, width))]_vars

C11_Witness ==
    /\ pc = "main_resume"
    /\ is_done
    /\ surface_width > 0
    /\ pos_x < surface_width
    /\ col_number >= 2

\* C12: in a cycle in which check_column_status set is_done, or which ended
\* through the stop path, analyze_sample is not called and no alert is
\* emitted: main is past its loop, or holds a sample, only while is_done is
\* false.
C12_NoClassificationAfterFinish ==
    (/\ ~ConfigurationError
     /\ pc \in {"main_expiry", "main_clear", "analyze_sample"} \/ sample # NoSample)
        => ~is_done

\* C13: once is_done is true it stays true, col_number and pos_x no longer
\* change, and no db.drive, db.turn or db.straight is given.
C13_FinishedIsSink ==
    [][is_done =>
           /\ is_done'
           /\ col_number' = col_number
           /\ pos_x' = pos_x
           /\ turns' = turns
           /\ pc' # "main_start"
           /\ db_cmd' \in {db_cmd, "stop"}]_vars

C13_Witness ==
    /\ is_done
    /\ pc = "halt"
    /\ db_cmd = "stop"
    /\ turns # <<>>

\* C14: in every reachable state (of a configuration that is not in error)
\* pos_x = (col_number - 1) * width, also after the sweep is finished.
C14_LateralOffset ==
    ~ConfigurationError => pos_x = (col_number - 1) * width

\* C15: col_number starts at 1; every step leaves it unchanged or increases it
\* by exactly 1; it increases exactly in the steps that execute a turn
\* maneuver, and pos_y is 0 after such a step.
C15_ColumnIndexMonotonic ==
    /\ col_number = 1
    /\ [][/\ col_number' \in {col_number, col_number + 1}
          /\ (col_number' = col_number + 1) <=> (Len(turns') = Len(turns) + 1)
          /\ (turns' # turns) => (pos_y' = 0 /\ Len(turns') = Len(turns) + 1)]_vars

C15_Witness ==
    /\ col_number >= 3
    /\ pos_y = 0
    /\ pc = "main_resume"

\* C16: every turn maneuver is executed between timer.pause() and the
\* timer.resume() that follows it: the timer is paused when
\* check_column_status is entered and until main resumes it, and its time is
\* the same after the maneuver as before.
C16_TurnOutsideBudget ==
    /\ [](pc = "check_column_status" => timer_paused)
    /\ [][(turns' # turns) =>
              /\ timer_paused
              /\ timer_paused'
              /\ timer_time' = timer_time
              /\ pc' = "main_resume"]_vars
    /\ [][(timer_paused /\ ~timer_paused') => pc = "main_resume"]_vars

C16_Witness ==
    /\ pc = "main_resume"
    /\ timer_paused
    /\ timer_time > 0
    /\ turns # <<>>
    /\ pos_y = 0
    /\ db_cmd = "reset"

\* C17: in a cycle that ends by deadline expiry the drivetrain is stopped
\* first, then the alert is cleared, then the sample is classified, and only
\* then the alert is turned on: the light turns red only in analyze_sample
\* with the drivetrain stopped, and after such a cycle it is red iff this
\* classification alerted.
C17_StopClearClassifyAlert ==
    /\ [](pc = "main_clear" => db_cmd = "stop")
    /\ [](pc = "analyze_sample" => (db_cmd = "stop" /\ light = "off"))
    /\ [][(light' = "red" /\ light # "red") =>
              (pc = "analyze_sample" /\ db_cmd = "stop" /\ alerts' # <<>>)]_vars
    /\ []((pc = "main_return" /\ sample # NoSample) =>
              ((light = "red") <=> (alerts # <<>>)))

C17_Witness ==
    /\ pc = "main_return"
    /\ light = "red"
    /\ alerts # <<>>
    /\ db_cmd = "stop"
    /\ ~is_done

\* C19: main is never started with robot.is_done true, and while is_on is
\* true and is_done false the end of a call of main leads to the next call.
C19_CycleReinvoked ==
    /\ [](pc = "main_start" => ~is_done)
    /\ [][(pc = "main_return" /\ ProgramStep) => pc' = "inner_loop"]_vars
    /\ [][(pc = "inner_loop" /\ is_on /\ ~is_done) =>
              \/ pc' = "main_start"
              \/ (pc' = "inner_loop" /\ is_on' /\ ~is_done')]_vars

C19_Witness ==
    /\ pc = "main_start"
    /\ db_cmd = "stop"
    /\ is_on
    /\ ~is_done

----------------------------------------------------------------------------
(* Liveness *)

\* The steps of the program: everything but the touch sensor and the clock.
Program ==
    \/ ProgramLoop
    \/ InnerLoop
    \/ MainStart
    \/ MainLoop
    \/ MainPoll
    \/ MainRead
    \/ MainCompare
    \/ CheckColumnStatus
    \/ MainResume
    \/ MainExpiry
    \/ MainClear
    \/ AnalyzeSample
    \/ MainReturn

\* A reading of the odometry that is larger than the one before.
OdometryGrows == MainRead /\ dist' > dist

\* The loop of main is entered: its test finds the deadline not reached.
LoopEntered == MainLoop /\ pc' = "main_poll"

\* Runs of the configurations that are not in error, in which the single
\* thread of control keeps taking steps, the deadline does not for ever
\* expire before the loop of main is entered, and the odometry, read again
\* and again, does not stay the same for ever while a larger reading is
\* possible.
LiveInit == Init /\ ~ConfigurationError

LiveSpec ==
    /\ LiveInit
    /\ [][Next]_vars
    /\ WF_vars(Program)
    /\ SF_vars(LoopEntered)
    /\ SF_vars(OdometryGrows)

\* C18: once the run is switched on, the sweep eventually is finished
\* (is_done true) and the program loop ends (is_running false).
C18_EventuallyFinished == is_on ~> (is_done /\ ~is_running)

====
